---- MODULE Spec2Model ----
(***************************************************************************)
(* The drawing page of src/src/App.jsx (DrawPage): a fabric.js canvas with *)
(* brush, eraser and fill tools, a snapshot history (undo / redo / clear), *)
(* a stack-based flood fill persisted as the canvas background image, and  *)
(* a grid guide layer.                                                     *)
(*                                                                         *)
(* The canvas is SIZE x SIZE pixels (700 in the source, scaled down here). *)
(* A pixel buffer is the sequence `data` of getImageData, one RGBA tuple   *)
(* per pixel, pixel (x, y) at index y*SIZE + x (+1: sequences start at 1). *)
(* Strings holding colours are sequences of characters: a hex digit is its *)
(* value 0..15 and '#' is Hash.                                            *)
(***************************************************************************)
EXTENDS Integers, Sequences, FiniteSets, TLC

\* ---------------------------------------------------------------- bounds
SIZE == 3
MaxStrokes == 2
MaxFills == 2
MaxApplies == 2
MaxLoads == 2
MaxCanvasObjects == 3
DeepObjects == 35
MaxTasks == 2
MaxUrls == 4
MaxNow == 4

\* ------------------------------------------------------ program constants
HistoryCap == 30
tol == 8
DefaultSize == 12
MaxPanels == 3
MinBytes == 3000
MinVariance == 400

\* ----------------------------------------------------------- colour text
Hash == 16
HexBlack == <<Hash, 0, 0, 0, 0, 0, 0>>
HexWhite == <<Hash, 15, 15, 15, 15, 15, 15>>
HexRed == <<Hash, 15, 15, 0, 0, 0, 0>>
HexNear == <<Hash, 15, 7, 15, 7, 15, 7>>
HexShortRed == <<Hash, 15, 0, 0>>
HexYellow == <<Hash, 15, 15, 15, 15, 0, 0>>
HexLightYellow == <<Hash, 15, 15, 15, 15, 8, 0>>
HexGrid == <<Hash, 12, 11, 13, 5, 14, 1>>
NoColor == <<>>

RECURSIVE parseInt16(_)
parseInt16(h) ==
  IF h = <<>> THEN 0 ELSE parseInt16(SubSeq(h, 1, Len(h) - 1)) * 16 + h[Len(h)]

hexToRgba(hex) ==
  IF hex = <<>> THEN <<0, 0, 0, 255>>
  ELSE LET h1 == IF Head(hex) = Hash THEN Tail(hex) ELSE hex
           h2 == IF Len(h1) = 3
                 THEN <<h1[1], h1[1], h1[2], h1[2], h1[3], h1[3]>>
                 ELSE h1
       IN IF Len(h2) # 6 THEN <<0, 0, 0, 255>>
          ELSE LET num == parseInt16(h2)
               IN <<(num \div 65536) % 256, (num \div 256) % 256, num % 256, 255>>

\* ---------------------------------------------------------------- pixels
width == SIZE
height == SIZE
NPixels == width * height
PixelIdx(x, y) == y * width + x
PixelX(i) == i % width
PixelY(i) == i \div width
AllPixels == 0 .. (NPixels - 1)

Abs(n) == IF n < 0 THEN -n ELSE n

\* shapes a pointer drag can cover
Centre == {PixelIdx(1, 1)}
Diamond == {i \in AllPixels : Abs(PixelX(i) - 1) + Abs(PixelY(i) - 1) = 1}

\* grid guide lines at x = step, 2*step, ... and y = step, 2*step, ...
step == 2
GridPx ==
  {i \in AllPixels : (PixelX(i) > 0 /\ PixelX(i) % step = 0)
                     \/ (PixelY(i) > 0 /\ PixelY(i) % step = 0)}

\* -------------------------------------------------------- canvas objects
NoImage == <<>>
Transparent == <<0, 0, 0, 0>>

Path(brush, shape) ==
  [type |-> "path", stroke |-> brush.color, strokeWidth |-> brush.width, px |-> shape]
GridGroup ==
  [type |-> "group", stroke |-> HexGrid, strokeWidth |-> 1, px |-> GridPx]

IsGrid(o) == o.type = "group"
IsDrawable(o) == o.type # "group"

\* the grid lines are drawn with opacity 0.6 over what lies beneath them
BlendGrid(base) ==
  LET g == hexToRgba(HexGrid)
  IN IF base[4] = 0 THEN <<g[1], g[2], g[3], 153>>
     ELSE <<(g[1] * 6 + base[1] * 4) \div 10, (g[2] * 6 + base[2] * 4) \div 10,
            (g[3] * 6 + base[3] * 4) \div 10, base[4]>>

\* background colour first, background image over it
BasePixel(bgColor, bgImage, i) ==
  IF bgImage # NoImage /\ bgImage[i + 1][4] # 0 THEN bgImage[i + 1]
  ELSE IF bgColor # NoColor THEN hexToRgba(bgColor)
  ELSE Transparent

RECURSIVE PaintObjects(_, _, _)
PaintObjects(objs, i, base) ==
  IF objs = <<>> THEN base
  ELSE LET o == Head(objs)
       IN PaintObjects(Tail(objs), i,
            IF i \in o.px
            THEN (IF IsGrid(o) THEN BlendGrid(base) ELSE hexToRgba(o.stroke))
            ELSE base)

\* canvas.renderAll() followed by ctx.getImageData(0, 0, width, height).data
getImageData(objs, bgColor, bgImage) ==
  [k \in 1 .. NPixels |-> PaintObjects(objs, k - 1, BasePixel(bgColor, bgImage, k - 1))]

\* ------------------------------------------------------------ flood fill
\* matches without the alpha channel
matchesRgbOnly(px, target) ==
  /\ Abs(px[1] - target[1]) <= tol
  /\ Abs(px[2] - target[2]) <= tol
  /\ Abs(px[3] - target[3]) <= tol

matches(px, target) ==
  /\ Abs(px[1] - target[1]) <= tol
  /\ Abs(px[2] - target[2]) <= tol
  /\ Abs(px[3] - target[3]) <= tol
  /\ Abs(px[4] - target[4]) <= tol

\* the neighbours with the diagonal ones
PushNeighbors8(stack, x, y) ==
  stack \o << <<x + 1, y>>, <<x - 1, y>>, <<x, y + 1>>, <<x, y - 1>>,
              <<x + 1, y + 1>>, <<x - 1, y - 1>>, <<x - 1, y + 1>>, <<x + 1, y - 1>> >>

PushNeighbors(stack, x, y) ==
  stack \o << <<x + 1, y>>, <<x - 1, y>>, <<x, y + 1>>, <<x, y - 1>> >>

\* no pixel has been tested yet
NoTests == [i \in AllPixels |-> 0]

\* an iteration of the loop that never consults visited
FillStepUnvisited(st, target, fill) ==
  IF st.stack = <<>> THEN st
  ELSE LET top == st.stack[Len(st.stack)]
           rest == SubSeq(st.stack, 1, Len(st.stack) - 1)
           x == top[1]
           y == top[2]
           i == PixelIdx(x, y)
           skipped == [st EXCEPT !.stack = rest, !.pops = @ + 1]
       IN IF x < 0 \/ y < 0 \/ x >= width \/ y >= height THEN skipped
          ELSE IF ~matches(st.data[i + 1], target)
          THEN [skipped EXCEPT !.tests[i] = @ + 1]
          ELSE [stack |-> PushNeighbors(rest, x, y),
                data |-> [st.data EXCEPT ![i + 1] = fill],
                visited |-> st.visited \cup {i},
                pops |-> st.pops + 1,
                tests |-> [st.tests EXCEPT ![i] = @ + 1]]

\* one iteration of the while(stack.length) loop: data is written in place,
\* visited marks the coloured pixels, pops counts the iterations, tests
\* counts for every pixel the iterations that reached matches() for it
FillStep(st, target, fill) ==
  IF st.stack = <<>> THEN st
  ELSE LET top == st.stack[Len(st.stack)]
           rest == SubSeq(st.stack, 1, Len(st.stack) - 1)
           x == top[1]
           y == top[2]
           i == PixelIdx(x, y)
           skipped == [st EXCEPT !.stack = rest, !.pops = @ + 1]
       IN IF x < 0 \/ y < 0 \/ x >= width \/ y >= height THEN skipped
          ELSE IF i \in st.visited THEN skipped
          ELSE IF ~matches(st.data[i + 1], target)
          THEN [skipped EXCEPT !.tests[i] = @ + 1]
          ELSE [stack |-> PushNeighbors(rest, x, y),
                data |-> [st.data EXCEPT ![i + 1] = fill],
                visited |-> st.visited \cup {i},
                pops |-> st.pops + 1,
                tests |-> [st.tests EXCEPT ![i] = @ + 1]]

\* the loop, run until the stack is empty; n bounds the iterations left (the
\* recursion halves n to stay shallow)
RECURSIVE FillLoop(_, _, _, _)
FillLoop(st, target, fill, n) ==
  IF n = 0 \/ st.stack = <<>> THEN st
  ELSE IF n = 1 THEN FillStep(st, target, fill)
  ELSE FillLoop(FillLoop(st, target, fill, n \div 2), target, fill, n - (n \div 2))

\* every coloured pixel pushes its neighbours once, so the loop ends within
\* this many iterations
MaxPops == 8 * NPixels + 1

\* floodFillAt() moving a seed outside the canvas to the nearest pixel inside
floodFillClamped(data, startX, startY, fillHex) ==
  LET cx == IF startX < 0 THEN 0 ELSE IF startX >= width THEN width - 1 ELSE startX
      cy == IF startY < 0 THEN 0 ELSE IF startY >= height THEN height - 1 ELSE startY
      fill == hexToRgba(fillHex)
      target == data[PixelIdx(cx, cy) + 1]
  IN IF target = fill
     THEN [kind |-> "skip", data |-> data, visited |-> {}, pops |-> 0, tests |-> NoTests]
     ELSE LET r == FillLoop([stack |-> << <<cx, cy>> >>, data |-> data,
                               visited |-> {}, pops |-> 0, tests |-> NoTests],
                              target, fill, MaxPops)
          IN [kind |-> "fill", data |-> r.data, visited |-> r.visited,
              pops |-> r.pops, tests |-> r.tests]

\* what one call of floodFillAt computes from the pixels it samples:
\* kind "skip" (out of bounds, or the seed already has the fill colour) or
\* kind "fill" with the buffer handed to fabric.Image.fromURL
floodFill(data, startX, startY, fillHex) ==
  IF startX < 0 \/ startY < 0 \/ startX >= width \/ startY >= height
  THEN [kind |-> "skip", data |-> data, visited |-> {}, pops |-> 0, tests |-> NoTests]
  ELSE LET fill == hexToRgba(fillHex)
           target == data[PixelIdx(startX, startY) + 1]
       IN IF target = fill
          THEN [kind |-> "skip", data |-> data, visited |-> {}, pops |-> 0, tests |-> NoTests]
          ELSE LET r == FillLoop([stack |-> << <<startX, startY>> >>, data |-> data,
                                    visited |-> {}, pops |-> 0, tests |-> NoTests],
                                   target, fill, MaxPops)
               IN [kind |-> "fill", data |-> r.data, visited |-> r.visited,
                   pops |-> r.pops, tests |-> r.tests]

\* ------------------------------------------------------------------ state
VARIABLES
  objects,            \* fabric canvas: the objects, bottom first
  backgroundColor,    \* fabric canvas: backgroundColor
  backgroundImage,    \* fabric canvas: backgroundImage (a pixel buffer)
  undo,               \* undo.current
  redo,               \* redo.current
  restoring,          \* restoring.current
  loads,              \* image loads in flight (loadFromJSON, Image.fromURL)
  tool,               \* tool / toolRef.current
  color,              \* color / colorRef.current
  size,               \* size
  isDrawingMode,      \* fabric canvas: isDrawingMode
  freeDrawingBrush,   \* fabric canvas: freeDrawingBrush
  gridLayerRef,       \* gridLayerRef.current is set
  grid_guides,        \* window.__picteractive_settings.grid_guides
  run,                \* history variable: the commits made since mount
  fData,              \* a pixel buffer handed to floodFill on its own
  fOut,               \* and what floodFill made of it
  drawn,              \* the gestures made so far (bounds the exploration)
  frames,             \* frames: the panels, each {id, url, blob}
  liveUrls,           \* object URLs created and not revoked
  nextUrl,            \* the next object URL URL.createObjectURL hands out
  now,                \* Date.now()
  toast,              \* the message last given to show()
  page,               \* the route shown: "draw" until navigate('/story')
  handoff,            \* the state handed to navigate('/story', ...)
  dragIndex,          \* dragIndex.current: <<>> for null, <<i>> for i
  tasks               \* awaits in flight (capture, tryExample)

canvasVars == <<objects, backgroundColor, backgroundImage>>
historyVars == <<undo, redo, restoring>>
toolVars == <<tool, color, size, isDrawingMode, freeDrawingBrush>>
gridVars == <<gridLayerRef, grid_guides>>
fillVars == <<fData, fOut>>
progVars == <<canvasVars, historyVars, loads, toolVars, gridVars, run, fillVars>>
panelVars == <<frames, liveUrls, nextUrl, now, toast, page, handoff, dragIndex, tasks>>
vars == <<progVars, drawn, panelVars>>

Last(s) == s[Len(s)]
Front(s) == SubSeq(s, 1, Len(s) - 1)
RemoveAt(s, k) == SubSeq(s, 1, k - 1) \o SubSeq(s, k + 1, Len(s))

\* canvas.toJSON(): the grid group is excludeFromExport
toJSON(objs, bgColor, bgImage) ==
  [objects |-> SelectSeq(objs, IsDrawable), background |-> bgColor,
   backgroundImage |-> bgImage]

\* push() dropping the newest snapshot instead of the oldest
pushPop(u, r, rst, json) ==
  IF rst THEN [undo |-> u, redo |-> r]
  ELSE LET u1 == Append(u, json)
       IN [undo |-> IF Len(u1) > HistoryCap THEN Front(u1) ELSE u1, redo |-> <<>>]

\* push() without its test of restoring.current
pushUnguarded(u, r, rst, json) ==
  LET u1 == Append(u, json)
  IN [undo |-> IF Len(u1) > HistoryCap THEN Tail(u1) ELSE u1, redo |-> <<>>]

\* push(), as the stacks it leaves
push(u, r, rst, json) ==
  IF rst THEN [undo |-> u, redo |-> r]
  ELSE LET u1 == Append(u, json)
       IN [undo |-> IF Len(u1) > HistoryCap THEN Tail(u1) ELSE u1, redo |-> <<>>]

\* the history variable run follows one scenario from the mount on: while
\* only mutations have happened (phase "commits") log holds the scene as it
\* was after each of them, the mounted canvas first; the undos that follow
\* are counted (phase "undos"); a redo right after the first undo gives phase
\* "redone"; anything else ends the scenario (phase "off")
RunOff == [phase |-> "off", log |-> <<>>, undone |-> 0]
RunMutation(r, json) ==
  IF r.phase = "commits" THEN [r EXCEPT !.log = Append(@, json)] ELSE RunOff
RunUndo(r) ==
  IF r.phase \in {"commits", "undos"}
  THEN [r EXCEPT !.phase = "undos", !.undone = @ + 1]
  ELSE RunOff
RunRedo(r) ==
  IF r.phase = "undos" /\ r.undone = 1 THEN [r EXCEPT !.phase = "redone"] ELSE RunOff

\* applyBrush()
applyBrush(t, c, n) ==
  IF t = "fill"
  THEN /\ isDrawingMode' = FALSE
       /\ UNCHANGED freeDrawingBrush
  ELSE /\ freeDrawingBrush' = [width |-> n, color |-> IF t = "eraser" THEN HexWhite ELSE c]
       /\ isDrawingMode' = TRUE

\* DrawPage mounts with no panels and nothing in flight
PanelInit ==
  /\ frames = <<>>
  /\ liveUrls = {}
  /\ nextUrl = 1
  /\ now = 0
  /\ toast = ""
  /\ page = "draw"
  /\ handoff = <<>>
  /\ dragIndex = <<>>
  /\ tasks = <<>>

Init ==
  /\ PanelInit
  /\ grid_guides = FALSE
  /\ gridLayerRef = grid_guides
  /\ objects = IF grid_guides THEN <<GridGroup>> ELSE <<>>
  /\ backgroundColor = HexWhite
  /\ backgroundImage = NoImage
  /\ undo = <<toJSON(<<>>, HexWhite, NoImage)>>
  /\ redo = <<>>
  /\ restoring = FALSE
  /\ loads = <<>>
  /\ tool = "brush"
  /\ color = HexBlack
  /\ size = DefaultSize
  /\ isDrawingMode = TRUE
  /\ freeDrawingBrush = [width |-> DefaultSize, color |-> HexBlack]
  /\ run = [phase |-> "commits", log |-> <<toJSON(<<>>, HexWhite, NoImage)>>, undone |-> 0]
  /\ fData = NoImage
  /\ fOut = [kind |-> "none"]
  /\ drawn = [strokes |-> 0, fills |-> 0, applies |-> 0]

\* ---------------------------------------------------------------- toolbar
setTool(t) ==
  /\ tool' = t
  /\ applyBrush(t, color, size)
  /\ UNCHANGED <<color, size, canvasVars, historyVars, loads, gridVars, run, fillVars>>

setColor(c) ==
  /\ color' = c
  /\ applyBrush(tool, c, size)
  /\ UNCHANGED <<tool, size, canvasVars, historyVars, loads, gridVars, run, fillVars>>

setSize(n) ==
  /\ size' = n
  /\ applyBrush(tool, color, n)
  /\ UNCHANGED <<tool, color, canvasVars, historyVars, loads, gridVars, run, fillVars>>

\* ----------------------------------------------------------------- stroke
\* a pointer drag in drawing mode: the brush adds its path, fabric fires
\* path:created and rec calls push()
pathCreated(shape) ==
  /\ isDrawingMode
  /\ LET objs == Append(objects, Path(freeDrawingBrush, shape))
         json == toJSON(objs, backgroundColor, backgroundImage)
         h == push(undo, redo, restoring, json)
     IN /\ objects' = objs
        /\ undo' = h.undo
        /\ redo' = h.redo
        /\ run' = RunMutation(run, json)
  /\ UNCHANGED <<backgroundColor, backgroundImage, restoring, loads, toolVars,
                 gridVars, fillVars>>

\* ---------------------------------------------------------------- history
\* the clear() inside loadFromJSON removes the objects one by one; every
\* removal fires object:removed, and rec calls push() on the canvas as it is
\* then, with the flag as restore() has set it
RECURSIVE removed(_, _, _, _, _, _)
removed(u, r, rst, objs, bgColor, bgImage) ==
  IF objs = <<>> THEN [undo |-> u, redo |-> r]
  ELSE LET h == push(u, r, rst, toJSON(Tail(objs), bgColor, bgImage))
       IN removed(h.undo, h.redo, rst, Tail(objs), bgColor, bgImage)

\* restore(s), called with the stacks u and r its caller has left:
\* restoring.current = true, then canvas.loadFromJSON(s, callback). fabric
\* rebuilds the paths at once, clears the canvas (the object:removed events
\* reach push() with restoring set), sets the background colour and loads
\* the background image. A snapshot without a background image is installed
\* before loadFromJSON returns; one with an image when the image has loaded.
restore(u, r, s) ==
  /\ LET h == removed(u, r, TRUE, objects, backgroundColor, backgroundImage)
     IN undo' = h.undo /\ redo' = h.redo
  /\ IF s.backgroundImage = NoImage
     THEN /\ objects' = s.objects
          /\ backgroundColor' = s.background
          /\ backgroundImage' = NoImage
          /\ restoring' = FALSE
          /\ loads' = loads
     ELSE /\ Len(loads) < MaxLoads
          /\ objects' = <<>>
          /\ backgroundColor' = s.background
          /\ backgroundImage' = NoImage
          /\ restoring' = TRUE
          /\ loads' = Append(loads, [kind |-> "restore", json |-> s, img |-> NoImage,
                                     startX |-> 0, startY |-> 0, fillHex |-> NoColor])

\* the image of a loadFromJSON has loaded: the snapshot's objects are inserted
\* at their indices and the callback clears the flag
restoreLoaded(k) ==
  /\ k \in 1 .. Len(loads)
  /\ loads[k].kind = "restore"
  /\ backgroundImage' = loads[k].json.backgroundImage
  /\ objects' = loads[k].json.objects \o objects
  /\ restoring' = FALSE
  /\ loads' = RemoveAt(loads, k)
  /\ UNCHANGED <<backgroundColor, undo, redo, toolVars, gridVars, run, fillVars>>

\* handleUndo() giving up the last snapshot as well
handleUndoToEmpty ==
  IF Len(undo) < 1 THEN UNCHANGED progVars
  ELSE LET cur == Last(undo)
           u1 == Front(undo)
       IN /\ IF u1 = <<>>
             THEN /\ undo' = u1
                  /\ redo' = Append(redo, cur)
                  /\ UNCHANGED <<canvasVars, restoring, loads>>
             ELSE restore(u1, Append(redo, cur), Last(u1))
          /\ run' = RunUndo(run)
          /\ UNCHANGED <<toolVars, gridVars, fillVars>>

handleUndo ==
  IF Len(undo) <= 1 THEN UNCHANGED progVars
  ELSE LET cur == Last(undo)
           u1 == Front(undo)
           prev == Last(u1)
       IN /\ restore(u1, Append(redo, cur), prev)
          /\ run' = RunUndo(run)
          /\ UNCHANGED <<toolVars, gridVars, fillVars>>

\* handleRedo() reading the top of redo without popping it
handleRedoPeek ==
  IF Len(redo) = 0 THEN UNCHANGED progVars
  ELSE LET s == Last(redo)
       IN /\ restore(Append(undo, s), redo, s)
          /\ run' = RunRedo(run)
          /\ UNCHANGED <<toolVars, gridVars, fillVars>>

handleRedo ==
  IF Len(redo) = 0 THEN UNCHANGED progVars
  ELSE LET s == Last(redo)
       IN /\ restore(Append(undo, s), Front(redo), s)
          /\ run' = RunRedo(run)
          /\ UNCHANGED <<toolVars, gridVars, fillVars>>

\* handleClear() putting the toolbar back to the brush
handleClearResetTool ==
  LET objs == IF grid_guides THEN <<GridGroup>> ELSE <<>>
      h == push(<<>>, <<>>, restoring, toJSON(objs, HexWhite, NoImage))
  IN /\ objects' = objs
     /\ backgroundImage' = NoImage
     /\ backgroundColor' = HexWhite
     /\ gridLayerRef' = grid_guides
     /\ undo' = h.undo
     /\ redo' = h.redo
     /\ run' = RunOff
     /\ tool' = "brush"
     /\ applyBrush("brush", color, size)
     /\ UNCHANGED <<restoring, loads, color, size, grid_guides, fillVars>>

\* handleClear(): every object is removed (each object:removed reaches push(),
\* and those snapshots are dropped again by the reset below), the background
\* is reset, the grid is rebuilt, the stacks are emptied and push() records
\* the cleared canvas
handleClear ==
  LET objs == IF grid_guides THEN <<GridGroup>> ELSE <<>>
      h == push(<<>>, <<>>, restoring, toJSON(objs, HexWhite, NoImage))
  IN /\ objects' = objs
     /\ backgroundImage' = NoImage
     /\ backgroundColor' = HexWhite
     /\ gridLayerRef' = grid_guides
     /\ undo' = h.undo
     /\ redo' = h.redo
     /\ run' = RunOff
     /\ UNCHANGED <<restoring, loads, toolVars, grid_guides, fillVars>>

\* ------------------------------------------------------------------- fill
\* onDown without its test of the tool
onDownAnyTool(x, y) ==
  LET r == floodFill(getImageData(objects, backgroundColor, backgroundImage),
                     x, y, color)
  IN IF r.kind = "skip" THEN UNCHANGED progVars
     ELSE /\ Len(loads) < MaxLoads
          /\ loads' = Append(loads, [kind |-> "fill", json |-> <<>>, img |-> r.data,
                                     startX |-> x, startY |-> y, fillHex |-> color])
          /\ UNCHANGED <<canvasVars, historyVars, toolVars, gridVars, run, fillVars>>

\* mouse:down: onDown calls floodFillAt when the fill tool is selected; an
\* effective fill hands its buffer to fabric.Image.fromURL
onDown(x, y) ==
  IF tool # "fill" THEN UNCHANGED progVars
  ELSE LET r == floodFill(getImageData(objects, backgroundColor, backgroundImage),
                          x, y, color)
       IN IF r.kind = "skip" THEN UNCHANGED progVars
          ELSE /\ Len(loads) < MaxLoads
               /\ loads' = Append(loads, [kind |-> "fill", json |-> <<>>, img |-> r.data,
                                          startX |-> x, startY |-> y, fillHex |-> color])
               /\ UNCHANGED <<canvasVars, historyVars, toolVars, gridVars, run, fillVars>>

\* the callback of fabric.Image.fromURL leaving the background colour set
fillLoadedOverColor(k) ==
  /\ k \in 1 .. Len(loads)
  /\ loads[k].kind = "fill"
  /\ LET json == toJSON(objects, backgroundColor, loads[k].img)
         h == push(undo, redo, restoring, json)
     IN /\ backgroundImage' = loads[k].img
        /\ undo' = h.undo
        /\ redo' = h.redo
        /\ run' = RunMutation(run, json)
  /\ loads' = RemoveAt(loads, k)
  /\ UNCHANGED <<backgroundColor, objects, restoring, toolVars, gridVars, fillVars>>

\* the callback of fabric.Image.fromURL: the image becomes the background
\* and push() records it
fillLoaded(k) ==
  /\ k \in 1 .. Len(loads)
  /\ loads[k].kind = "fill"
  /\ LET json == toJSON(objects, NoColor, loads[k].img)
         h == push(undo, redo, restoring, json)
     IN /\ backgroundColor' = NoColor
        /\ backgroundImage' = loads[k].img
        /\ undo' = h.undo
        /\ redo' = h.redo
        /\ run' = RunMutation(run, json)
  /\ loads' = RemoveAt(loads, k)
  /\ UNCHANGED <<objects, restoring, toolVars, gridVars, fillVars>>

\* ------------------------------------------------------------------- grid
\* drawGridLayer() adding the group without sending it to the back
onApplyOnTop(enabled) ==
  LET onCanvas == gridLayerRef /\ \E k \in 1 .. Len(objects) : IsGrid(objects[k])
      o1 == IF gridLayerRef THEN SelectSeq(objects, IsDrawable) ELSE objects
      json == toJSON(o1, backgroundColor, backgroundImage)
      h == IF onCanvas THEN push(undo, redo, restoring, json)
           ELSE [undo |-> undo, redo |-> redo]
  IN /\ grid_guides' = enabled
     /\ gridLayerRef' = enabled
     /\ objects' = IF enabled THEN o1 \o <<GridGroup>> ELSE o1
     /\ undo' = h.undo
     /\ redo' = h.redo
     /\ run' = IF onCanvas THEN RunMutation(run, json) ELSE run
     /\ UNCHANGED <<backgroundColor, backgroundImage, restoring, loads, toolVars, fillVars>>

\* picteractive:settings-applied with grid_guides = enabled: drawGridLayer()
\* removes the group it holds (object:removed reaches push()) and adds a new
\* one at the bottom when the guides are enabled
onApply(enabled) ==
  LET onCanvas == gridLayerRef /\ \E k \in 1 .. Len(objects) : IsGrid(objects[k])
      o1 == IF gridLayerRef THEN SelectSeq(objects, IsDrawable) ELSE objects
      json == toJSON(o1, backgroundColor, backgroundImage)
      h == IF onCanvas THEN push(undo, redo, restoring, json)
           ELSE [undo |-> undo, redo |-> redo]
  IN /\ grid_guides' = enabled
     /\ gridLayerRef' = enabled
     /\ objects' = IF enabled THEN <<GridGroup>> \o o1 ELSE o1
     /\ undo' = h.undo
     /\ redo' = h.redo
     /\ run' = IF onCanvas THEN RunMutation(run, json) ELSE run
     /\ UNCHANGED <<backgroundColor, backgroundImage, restoring, loads, toolVars, fillVars>>

\* ------------------------------------------------------------ the machine
Tools == {"brush", "eraser", "fill"}
Colors == {HexBlack}
Sizes == {DefaultSize}
Shapes == {Diamond}
Clicks == {<<1, 1>>, <<1, 0>>, <<-1, 0>>, <<1, SIZE>>}
Coords == -1 .. SIZE

\* the objects of a pending restore still fit on the canvas
CanInsert(k, n) ==
  (k <= Len(loads) /\ loads[k].kind = "restore")
    => Len(loads[k].json.objects) + Len(objects) <= n

Drew(what) == drawn' = [drawn EXCEPT ![what] = @ + 1]

Next ==
  \/ \E t \in Tools : setTool(t) /\ UNCHANGED <<drawn, panelVars>>
  \/ \E c \in Colors : setColor(c) /\ UNCHANGED <<drawn, panelVars>>
  \/ \E n \in Sizes : setSize(n) /\ UNCHANGED <<drawn, panelVars>>
  \/ \E sh \in Shapes :
       drawn.strokes < MaxStrokes /\ pathCreated(sh) /\ Drew("strokes")
       /\ UNCHANGED panelVars
  \/ \E p \in Clicks :
       drawn.fills < MaxFills /\ tool = "fill" /\ onDown(p[1], p[2]) /\ Drew("fills")
       /\ UNCHANGED panelVars
  \/ \E k \in 1 .. MaxLoads : fillLoaded(k) /\ UNCHANGED <<drawn, panelVars>>
  \/ \E k \in 1 .. MaxLoads :
       CanInsert(k, MaxCanvasObjects) /\ restoreLoaded(k) /\ UNCHANGED <<drawn, panelVars>>
  \/ handleUndo /\ UNCHANGED <<drawn, panelVars>>
  \/ handleRedo /\ UNCHANGED <<drawn, panelVars>>
  \/ handleClear /\ UNCHANGED <<drawn, panelVars>>

Spec == Init /\ [][Next]_vars

\* the same machine driven by one brush stroke, far enough to fill the stacks
NextDeep ==
  \/ Len(objects) < DeepObjects /\ pathCreated(Centre) /\ UNCHANGED <<drawn, panelVars>>
  \/ handleUndo /\ UNCHANGED <<drawn, panelVars>>
  \/ handleRedo /\ UNCHANGED <<drawn, panelVars>>
  \/ handleClear /\ UNCHANGED <<drawn, panelVars>>

SpecDeep == Init /\ [][NextDeep]_vars

\* --------------------------------------------- floodFillAt on given pixels
\* Pixel buffers a canvas can show: the centre, the pixels above and below
\* it, those left and right of it, the top left corner and the rest of the
\* canvas each in one colour; white, two greys near white (anti-aliased
\* edges), black, and a transparent corner
White == <<255, 255, 255, 255>>
Grey247 == <<247, 247, 247, 255>>
Grey239 == <<239, 239, 239, 255>>
Black == <<0, 0, 0, 255>>
Palette == {White, Grey247, Grey239, Black}
CornerPalette == {White, Transparent, Black}

AboveBelow == {i \in AllPixels : PixelX(i) = 1 /\ Abs(PixelY(i) - 1) = 1}
LeftRight == {i \in AllPixels : PixelY(i) = 1 /\ Abs(PixelX(i) - 1) = 1}

Buffer(centre, ab, lr, rest, corner) ==
  [k \in 1 .. NPixels |->
     IF k - 1 \in Centre THEN centre
     ELSE IF k - 1 \in AboveBelow THEN ab
     ELSE IF k - 1 \in LeftRight THEN lr
     ELSE IF k - 1 = 0 THEN corner
     ELSE rest]

Buffers ==
  {Buffer(a, b, c, d, e) : a \in Palette, b \in Palette, c \in Palette,
                           d \in Palette, e \in CornerPalette}

FillHexes == {HexRed, HexBlack, HexWhite, HexNear, HexShortRed}

\* floodFillAt(canvas, startX, startY, fillHex) on a canvas showing fData, up
\* to the buffer it hands to fabric.Image.fromURL
fillApply(x, y, hex) ==
  /\ fOut.kind = "none"
  /\ LET r == floodFill(fData, x, y, hex)
     IN fOut' = [kind |-> r.kind, startX |-> x, startY |-> y, fillHex |-> hex,
                 data |-> r.data, visited |-> r.visited, pops |-> r.pops, tests |-> r.tests]
  /\ UNCHANGED <<fData, canvasVars, historyVars, loads, toolVars, gridVars, run, drawn,
                 panelVars>>

NextFill == \E x \in Coords, y \in Coords, hex \in FillHexes : fillApply(x, y, hex)

\* the canvas as mounted, the fill tool selected, showing a given buffer
InitFill ==
  /\ grid_guides = FALSE
  /\ gridLayerRef = FALSE
  /\ objects = <<>>
  /\ backgroundColor = HexWhite
  /\ backgroundImage = NoImage
  /\ undo = <<toJSON(<<>>, HexWhite, NoImage)>>
  /\ redo = <<>>
  /\ restoring = FALSE
  /\ loads = <<>>
  /\ tool = "fill"
  /\ color = HexBlack
  /\ size = DefaultSize
  /\ isDrawingMode = FALSE
  /\ freeDrawingBrush = [width |-> DefaultSize, color |-> HexBlack]
  /\ run = RunOff
  /\ fData \in Buffers
  /\ fOut = [kind |-> "none"]
  /\ drawn = [strokes |-> 0, fills |-> 0, applies |-> 0]
  /\ PanelInit

SpecFill == InitFill /\ [][NextFill]_vars

\* ----------------------------------------------------------------- panels
\* measureVarianceFromCanvas(): the variance of the grey value (r+g+b)/3 over
\* the pixels of the canvas drawn onto the small off-screen canvas. With
\* s1 the sum of r+g+b, s2 the sum of its squares and n the pixel count the
\* variance is s2/(9n) - (s1/(3n))^2; varianceTimes9nn is that times 9n^2
RECURSIVE sumGrey(_, _)
sumGrey(data, k) ==
  IF k = 0 THEN 0
  ELSE data[k][1] + data[k][2] + data[k][3] + sumGrey(data, k - 1)

RECURSIVE sumGreySquared(_, _)
sumGreySquared(data, k) ==
  IF k = 0 THEN 0
  ELSE LET g == data[k][1] + data[k][2] + data[k][3]
       IN g * g + sumGreySquared(data, k - 1)

varianceTimes9nn(data) ==
  LET n == Len(data)
      d == n * sumGreySquared(data, n) - sumGrey(data, n) * sumGrey(data, n)
  IN IF d < 0 THEN 0 ELSE d

\* the quality gate of addToStory: !(b.size < 3000 || variance < 400), with
\* the variance measured on the canvas as it is when the gate runs
gate(blob, data) ==
  ~(blob.size < MinBytes
    \/ varianceTimes9nn(data) < MinVariance * 9 * Len(data) * Len(data))

\* the value an emptied or never filled array slot reads as
Undefined == [id |-> <<>>, url |-> 0, blob |-> <<>>]
HasUndefined(fs) == \E j \in 1 .. Len(fs) : fs[j] = Undefined

MsgFull == "All three frames are filled"
MsgDetail == "I can't see enough detail yet - add a clear shape or character."
MsgThree == "Add three drawings"
MsgExample == "Loaded example scenes"

\* capture(): the canvas as toDataURL renders it, encoded to size bytes
capture(bytes) ==
  [size |-> bytes, px |-> getImageData(objects, backgroundColor, backgroundImage),
   scene |-> 0]

\* addToStory() turning back only above three frames
addToStoryAboveThree(bytes) ==
  /\ page = "draw"
  /\ IF Len(frames) > MaxPanels
     THEN /\ toast' = MsgFull
          /\ UNCHANGED tasks
     ELSE /\ Len(tasks) < MaxTasks
          /\ tasks' = Append(tasks, [kind |-> "capture", blob |-> capture(bytes)])
          /\ UNCHANGED toast
  /\ UNCHANGED <<frames, liveUrls, nextUrl, now, page, handoff, dragIndex>>

\* addToStory(), up to its await
addToStory(bytes) ==
  /\ page = "draw"
  /\ IF Len(frames) >= MaxPanels
     THEN /\ toast' = MsgFull
          /\ UNCHANGED tasks
     ELSE /\ Len(tasks) < MaxTasks
          /\ tasks' = Append(tasks, [kind |-> "capture", blob |-> capture(bytes)])
          /\ UNCHANGED toast
  /\ UNCHANGED <<frames, liveUrls, nextUrl, now, page, handoff, dragIndex>>

\* addToStory(), from the blob of capture() on; t is Date.now()
captured(k, t) ==
  /\ page = "draw"
  /\ k \in 1 .. Len(tasks)
  /\ tasks[k].kind = "capture"
  /\ tasks' = RemoveAt(tasks, k)
  /\ IF ~gate(tasks[k].blob, getImageData(objects, backgroundColor, backgroundImage))
     THEN /\ toast' = MsgDetail
          /\ UNCHANGED <<frames, liveUrls, nextUrl, now>>
     ELSE /\ nextUrl <= MaxUrls
          /\ t >= now
          /\ nextUrl' = nextUrl + 1
          /\ liveUrls' = liveUrls \cup {nextUrl}
          /\ now' = t
          /\ frames' = Append(frames, [id |-> <<t, 0>>, url |-> nextUrl,
                                       blob |-> tasks[k].blob])
          /\ UNCHANGED toast
  /\ UNCHANGED <<page, handoff, dragIndex>>

\* the set of object URLs the frames fs hold
UrlsOf(fs) == {fs[j].url : j \in 1 .. Len(fs)}

\* an updater of setFrames that reads a field of an undefined entry throws
\* while React renders; no error boundary is mounted, so the page goes
crash ==
  /\ page' = "crashed"
  /\ UNCHANGED <<frames, liveUrls, nextUrl, now, toast, handoff, dragIndex, tasks>>

\* tryExample(), up to its await: the URLs of the current frames are revoked
\* and the frames are kept
tryExample ==
  /\ page = "draw"
  /\ Len(tasks) < MaxTasks
  /\ IF HasUndefined(frames) THEN crash
     ELSE /\ liveUrls' = liveUrls \ UrlsOf(frames)
          /\ tasks' = Append(tasks, [kind |-> "example", blob |-> <<>>])
          /\ UNCHANGED <<frames, nextUrl, now, toast, page, handoff, dragIndex>>

\* urlToFrame(src) for the j-th example scene, given the URL u
urlToFrame(j, u) ==
  [id |-> <<now, u>>, url |-> u, blob |-> [size |-> MinBytes, px |-> <<>>, scene |-> j]]

\* tryExample(), after Promise.all: the three example frames replace frames
exampleLoaded(k) ==
  /\ page = "draw"
  /\ k \in 1 .. Len(tasks)
  /\ tasks[k].kind = "example"
  /\ nextUrl + 2 <= MaxUrls
  /\ tasks' = RemoveAt(tasks, k)
  /\ nextUrl' = nextUrl + 3
  /\ liveUrls' = liveUrls \cup {nextUrl, nextUrl + 1, nextUrl + 2}
  /\ frames' = <<urlToFrame(1, nextUrl), urlToFrame(2, nextUrl + 1),
                 urlToFrame(3, nextUrl + 2)>>
  /\ toast' = MsgExample
  /\ UNCHANGED <<now, page, handoff, dragIndex>>

\* tryExample(): a fetch of an example scene fails, Promise.all rejects and
\* nothing after the await runs
exampleFailed(k) ==
  /\ page = "draw"
  /\ k \in 1 .. Len(tasks)
  /\ tasks[k].kind = "example"
  /\ tasks' = RemoveAt(tasks, k)
  /\ UNCHANGED <<frames, liveUrls, nextUrl, now, toast, page, handoff, dragIndex>>

\* removeFrame(id)
removeFrame(id) ==
  /\ page = "draw"
  /\ IF HasUndefined(frames) THEN crash
     ELSE LET keep(f) == f.id # id
              hit == {j \in 1 .. Len(frames) : frames[j].id = id}
              r == CHOOSE j \in hit : \A i \in hit : j <= i
          IN /\ frames' = SelectSeq(frames, keep)
             /\ liveUrls' = IF hit = {} THEN liveUrls ELSE liveUrls \ {frames[r].url}
             /\ UNCHANGED <<nextUrl, now, toast, page, handoff, dragIndex, tasks>>

\* dragStart(i, has)
dragStart(i, has) ==
  /\ page = "draw"
  /\ dragIndex' = IF has THEN <<i>> ELSE dragIndex
  /\ UNCHANGED <<frames, liveUrls, nextUrl, now, toast, page, handoff, tasks>>

\* the entries at from and to exchanged
spliceSwap(fs, from, to) ==
  IF from < Len(fs) /\ to < Len(fs)
  THEN [fs EXCEPT ![from + 1] = fs[to + 1], ![to + 1] = fs[from + 1]]
  ELSE fs

\* n.splice(from, 1) followed by n.splice(to, 0, it), indices from 0
spliceMove(fs, from, to) ==
  LET n1 == IF from < Len(fs) THEN RemoveAt(fs, from + 1) ELSE fs
      it == IF from < Len(fs) THEN fs[from + 1] ELSE Undefined
      at == IF to > Len(n1) THEN Len(n1) ELSE to
  IN SubSeq(n1, 1, at) \o <<it>> \o SubSeq(n1, at + 1, Len(n1))

\* drop(e, i)
drop(i) ==
  /\ page = "draw"
  /\ IF dragIndex = <<>> \/ dragIndex = <<i>>
     THEN UNCHANGED <<frames, dragIndex>>
     ELSE /\ frames' = spliceMove(frames, dragIndex[1], i)
          /\ dragIndex' = <<>>
  /\ UNCHANGED <<liveUrls, nextUrl, now, toast, page, handoff, tasks>>

\* apiStory(blobs) posting the first two images in each other's place
apiStorySwapped(blobs) ==
  [image1 |-> blobs[2], image2 |-> blobs[1], image3 |-> blobs[3]]

\* apiStory(blobs): the form StoryPage posts
apiStory(blobs) ==
  [image1 |-> blobs[1], image2 |-> blobs[2], image3 |-> blobs[3]]

\* createStory() going ahead with three frames or more
createStoryThreeOrMore ==
  /\ page = "draw"
  /\ IF Len(frames) < MaxPanels
     THEN /\ toast' = MsgThree
          /\ UNCHANGED <<page, handoff>>
     ELSE IF HasUndefined(frames)
     THEN UNCHANGED <<toast, page, handoff>>
     ELSE LET blobs == [j \in 1 .. Len(frames) |-> frames[j].blob]
              urls == [j \in 1 .. Len(frames) |-> frames[j].url]
          IN /\ page' = "story"
             /\ handoff' = [images |-> urls, blobs |-> blobs, form |-> apiStory(blobs),
                             loading |-> TRUE]
             /\ UNCHANGED toast
  /\ UNCHANGED <<frames, liveUrls, nextUrl, now, dragIndex, tasks>>

\* createStory(): apiRecognize is not defined, so the awaited labels fail
\* within the same task and are dropped by the catch; navigate('/story')
\* follows at once: DrawPage unmounts (its cleanup disposes the canvas and
\* revokes nothing), StoryPage mounts loading, shows the images and posts
\* the blobs
createStory ==
  /\ page = "draw"
  /\ IF Len(frames) # MaxPanels
     THEN /\ toast' = MsgThree
          /\ UNCHANGED <<page, handoff>>
     ELSE IF HasUndefined(frames)
     THEN UNCHANGED <<toast, page, handoff>>
     ELSE LET blobs == [j \in 1 .. Len(frames) |-> frames[j].blob]
              urls == [j \in 1 .. Len(frames) |-> frames[j].url]
          IN /\ page' = "story"
             /\ handoff' = [images |-> urls, blobs |-> blobs, form |-> apiStory(blobs),
                             loading |-> TRUE]
             /\ UNCHANGED toast
  /\ UNCHANGED <<frames, liveUrls, nextUrl, now, dragIndex, tasks>>

\* what StoryPage shows when the request fails: the error of the server or
\* of fetch
StoryErrors == {"story failed", "Failed to fetch"}

\* the durable URLs a story response may carry
ServerImages == <<-1, -2, -3>>

\* the catch of StoryPage's request also emptying the images shown
storyFailedDropping ==
  /\ page = "story"
  /\ handoff.loading
  /\ toast' \in StoryErrors
  /\ handoff' = [handoff EXCEPT !.loading = FALSE, !.images = <<>>, !.blobs = <<>>]
  /\ UNCHANGED <<frames, liveUrls, nextUrl, now, page, dragIndex, tasks>>

\* StoryPage: apiStory(blobs) throws; the catch shows the message and
\* finally ends the loading
storyFailed ==
  /\ page = "story"
  /\ handoff.loading
  /\ toast' \in StoryErrors
  /\ handoff' = [handoff EXCEPT !.loading = FALSE]
  /\ UNCHANGED <<frames, liveUrls, nextUrl, now, page, dragIndex, tasks>>

\* StoryPage: apiStory(blobs) answers; the images are swapped for the
\* server's when the answer carries three
storyLoaded(swap) ==
  /\ page = "story"
  /\ handoff.loading
  /\ handoff' = [handoff EXCEPT !.loading = FALSE,
                                !.images = IF swap THEN ServerImages ELSE @]
  /\ UNCHANGED <<frames, liveUrls, nextUrl, now, toast, page, dragIndex, tasks>>

BlobSizes == {MinBytes - 1, MinBytes}
Slots == 0 .. MaxPanels - 1

\* the drawing page with its panel collection: one brush stroke on the
\* canvas, captures that encode to enough bytes, the clock ahead at every
\* accepted capture, and every panel operation
NextPanels ==
  \/ drawn.strokes < 1 /\ pathCreated(Centre) /\ Drew("strokes") /\ UNCHANGED panelVars
  \/ addToStory(MinBytes) /\ UNCHANGED <<progVars, drawn>>
  \/ \E k \in 1 .. MaxTasks :
       now < MaxNow /\ captured(k, now + 1) /\ UNCHANGED <<progVars, drawn>>
  \/ tryExample /\ UNCHANGED <<progVars, drawn>>
  \/ \E k \in 1 .. MaxTasks : exampleLoaded(k) /\ UNCHANGED <<progVars, drawn>>
  \/ \E k \in 1 .. MaxTasks : exampleFailed(k) /\ UNCHANGED <<progVars, drawn>>
  \/ \E j \in 1 .. MaxPanels :
       j <= Len(frames) /\ removeFrame(frames[j].id) /\ UNCHANGED <<progVars, drawn>>
  \/ \E i \in Slots : dragStart(i, i < Len(frames)) /\ UNCHANGED <<progVars, drawn>>
  \/ \E i \in Slots : drop(i) /\ UNCHANGED <<progVars, drawn>>
  \/ createStory /\ UNCHANGED <<progVars, drawn>>
  \/ storyFailed /\ UNCHANGED <<progVars, drawn>>
  \/ \E swap \in BOOLEAN : storyLoaded(swap) /\ UNCHANGED <<progVars, drawn>>

SpecPanels == Init /\ [][NextPanels]_vars

\* the quality gate on the first panel: one stroke in any of a few colours,
\* Undo and Clear, and one capture at a time, encoded to either side of the
\* byte threshold
GateColors == {HexBlack, HexRed, HexYellow, HexLightYellow, HexNear}
GateShapes == {Centre, Diamond}

NextGate ==
  \/ \E c \in GateColors : setColor(c) /\ UNCHANGED <<drawn, panelVars>>
  \/ \E sh \in GateShapes :
       drawn.strokes < 1 /\ pathCreated(sh) /\ Drew("strokes") /\ UNCHANGED panelVars
  \/ handleUndo /\ UNCHANGED <<drawn, panelVars>>
  \/ handleClear /\ UNCHANGED <<drawn, panelVars>>
  \/ \E b \in BlobSizes :
       frames = <<>> /\ tasks = <<>> /\ addToStory(b) /\ UNCHANGED <<progVars, drawn>>
  \/ \E k \in 1 .. MaxTasks :
       now < MaxNow /\ captured(k, now + 1) /\ UNCHANGED <<progVars, drawn>>

SpecGate == Init /\ [][NextGate]_vars

\* ------------------------------------------------- flood fill: properties
InBounds(x, y) == x >= 0 /\ y >= 0 /\ x < SIZE /\ y < SIZE

\* every channel differs by at most 8
WithinTolerance(p, q) == \A c \in 1 .. 4 : Abs(p[c] - q[c]) <= 8

Adjacent(i, j) == Abs(PixelX(i) - PixelX(j)) + Abs(PixelY(i) - PixelY(j)) = 1

RECURSIVE Grow(_, _)
Grow(S, M) ==
  LET S1 == S \cup {j \in M : \E i \in S : Adjacent(i, j)}
  IN IF S1 = S THEN S ELSE Grow(S1, M)

\* the 4-connected component of the seed among the pixels within the
\* tolerance of the seed pixel's colour
Component(data, seed) ==
  Grow({seed}, {i \in AllPixels : WithinTolerance(data[i + 1], data[seed + 1])})

\* the colour each text of FillHexes names
NamedRgba(hex) ==
  CASE hex = HexRed -> <<255, 0, 0, 255>>
    [] hex = HexShortRed -> <<255, 0, 0, 255>>
    [] hex = HexBlack -> <<0, 0, 0, 255>>
    [] hex = HexWhite -> <<255, 255, 255, 255>>
    [] hex = HexNear -> <<247, 247, 247, 255>>

FillSeed == PixelIdx(fOut.startX, fOut.startY)

\* C8: for an in-bounds seed and a fill colour other than the seed pixel's
\* colour, floodFillAt recolours exactly the 4-connected component of the seed
\* among the pixels within 8 per channel of the seed pixel's colour, and every
\* pixel of that component ends at the fill colour with alpha 255.
C8_FillsExactlyTheComponent ==
  (/\ fOut.kind # "none"
   /\ InBounds(fOut.startX, fOut.startY)
   /\ fData[FillSeed + 1] # NamedRgba(fOut.fillHex))
  => /\ fOut.kind = "fill"
     /\ fOut.visited = Component(fData, FillSeed)
     /\ \A i \in Component(fData, FillSeed) :
          fOut.data[i + 1] = NamedRgba(fOut.fillHex)

\* a fill that took in a pixel of another colour than the seed's and left out
\* a pixel of the seed's colour that is not connected to it
C8_Witness ==
  /\ fOut.kind = "fill"
  /\ \E i \in fOut.visited : fData[i + 1] # fData[FillSeed + 1]
  /\ \E j \in AllPixels \ fOut.visited : fData[j + 1] = fData[FillSeed + 1]

\* a white canvas with a black outline around the centre pixel
OutlinedCentre == Buffer(White, Black, Black, White, White)

\* C9: a flood fill leaves every pixel outside the filled region unchanged;
\* filling the white centre enclosed by a black outline with #FF0000 turns
\* the centre RGBA(255,0,0,255) and leaves the outline and all beyond it as
\* they were.
C9_OutsideUnchanged ==
  fOut.kind = "fill"
  => /\ \A i \in AllPixels \ Component(fData, FillSeed) :
          fOut.data[i + 1] = fData[i + 1]
     /\ (fData = OutlinedCentre /\ FillSeed \in Centre /\ fOut.fillHex = HexRed)
        => fOut.data = Buffer(<<255, 0, 0, 255>>, Black, Black, White, White)

C9_Witness ==
  /\ fOut.kind = "fill"
  /\ fData = OutlinedCentre
  /\ FillSeed \in Centre
  /\ fOut.fillHex = HexRed
  /\ fOut.data[PixelIdx(1, 1) + 1] = <<255, 0, 0, 255>>

\* ------------------------------------------------------ history: properties
Scene == toJSON(objects, backgroundColor, backgroundImage)
BlankScene == toJSON(<<>>, HexWhite, NoImage)
NoRestorePending == \A k \in 1 .. Len(loads) : loads[k].kind # "restore"

\* C1: undo never holds more than 30 snapshots; a commit made at 30 evicts
\* the oldest, so that once more than 30 commits have been made in a row undo
\* holds exactly the 30 most recent of them (after 35, the oldest 5 are gone).
C1_UndoStackCapped ==
  /\ Len(undo) <= 30
  /\ (run.phase = "commits" /\ Len(run.log) > 30)
     => undo = SubSeq(run.log, Len(run.log) - 29, Len(run.log))

C1_Witness ==
  /\ run.phase = "commits"
  /\ Len(run.log) = 35
  /\ Len(undo) = 30
  /\ undo[1] = run.log[6]
  /\ undo[1] # run.log[5]

\* C2: every committed mutation (a completed stroke, an installed fill, a
\* clear) leaves redo empty.
C2_CommitClearsRedo ==
  [][((\E sh \in Shapes : pathCreated(sh))
      \/ (\E k \in 1 .. MaxLoads : fillLoaded(k))
      \/ handleClear)
     => redo' = <<>>]_vars

\* C3: after N < 30 committed mutations from the mounted blank canvas, the
\* k-th undo in a row restores the scene as it was after mutation N-k, and
\* the N-th the blank scene.
C3_UndoRoundTrip ==
  (run.phase = "undos" /\ NoRestorePending /\ Len(run.log) <= 30)
  => Scene = run.log[Len(run.log) - run.undone]

\* C4: an undo followed at once by a redo restores the scene that was
\* visible before the undo and leaves undo and redo as they were.
C4_UndoRedoRoundTrip ==
  (run.phase = "redone" /\ NoRestorePending /\ Len(run.log) <= 30)
  => /\ undo = run.log
     /\ redo = <<>>
     /\ Scene = Last(run.log)

\* C5: handleUndo with at most one snapshot in undo changes nothing: the
\* stacks, the canvas and the restoring flag stay and no restore is started.
C5_UndoAtFloorNoOp ==
  [][(Len(undo) <= 1 /\ handleUndo) => UNCHANGED progVars]_vars

\* everything has been undone down to the floor snapshot
C5_Witness ==
  /\ Len(undo) = 1
  /\ Len(redo) = 2
  /\ ~restoring
  /\ Scene = BlankScene

\* C6: undo is never empty.
C6_UndoNeverEmpty == Len(undo) >= 1

\* C7: after Clear undo holds exactly one snapshot, the cleared scene, and
\* redo is empty.
C7_ClearResetsHistory ==
  [][handleClear => (undo' = <<BlankScene>> /\ redo' = <<>> /\ Scene' = BlankScene)]_vars

\* C10: a fill clicked on a pixel that already has the fill colour changes
\* nothing, and so the same fill at the same point, repeated after it has
\* been installed, changes nothing either.
C10_FillIdempotent ==
  [][/\ \A p \in Clicks :
          (/\ tool = "fill"
           /\ InBounds(p[1], p[2])
           /\ getImageData(objects, backgroundColor, backgroundImage)
                [PixelIdx(p[1], p[2]) + 1] = NamedRgba(color)
           /\ onDown(p[1], p[2]))
          => UNCHANGED progVars
     /\ \A k \in 1 .. MaxLoads :
          fillLoaded(k)
          => floodFill(getImageData(objects', backgroundColor', backgroundImage'),
                       loads[k].startX, loads[k].startY, loads[k].fillHex).kind = "skip"
    ]_vars

\* ----------------------------------------------------- fill: the handler
\* C11: a fill click whose seed lies outside the canvas changes nothing: no
\* pixel, no background, no history stack, no load is started and no message
\* is shown.
C11_OutOfBoundsFillNoOp ==
  [][\A p \in {q \in Clicks : ~InBounds(q[1], q[2])} :
       onDown(p[1], p[2]) => UNCHANGED <<progVars, toast>>]_vars

\* two fill clicks have been made since the mount and nothing has been
\* committed, undone, cleared or started: on the white canvas every click
\* inside the canvas starts a fill, so both landed outside
C11_Witness ==
  /\ drawn.fills = 2
  /\ tool = "fill"
  /\ run.phase = "commits"
  /\ Len(run.log) = 1
  /\ loads = <<>>
  /\ Scene = BlankScene
  /\ undo = <<BlankScene>>
  /\ toast = ""

\* C12: the installation of an effective fill replaces the background by the
\* filled image and pushes exactly one snapshot holding it on top of undo,
\* emptying redo, whatever was done between the click and the installation.
C12_FillCommitsOneSnapshot ==
  [][\A k \in 1 .. MaxLoads :
       fillLoaded(k)
       => /\ backgroundImage' = loads[k].img
          /\ undo' = Append(undo, Scene')
          /\ redo' = <<>>]_vars

\* C13: when a fill is installed the canvas has exactly one background
\* layer, the raster that fill produced, and no background colour; a later
\* fill puts its raster in the place of the earlier one.
C13_OneFillLayer ==
  [][\A k \in 1 .. MaxLoads :
       fillLoaded(k)
       => /\ backgroundImage' = loads[k].img
          /\ Len(backgroundImage') = NPixels
          /\ backgroundColor' = NoColor
          /\ objects' = objects]_vars

\* a second fill has been installed over the first
C13_Witness ==
  /\ backgroundImage # NoImage
  /\ backgroundColor = NoColor
  /\ \E j \in 1 .. Len(undo) :
       /\ undo[j].backgroundImage # NoImage
       /\ undo[j].backgroundImage # backgroundImage
  /\ Last(undo).backgroundImage = backgroundImage
  /\ loads = <<>>

\* ------------------------------------------------------ panels: properties
\* C14: the panel collection never holds more than 3 panels.
C14_AtMostThreePanels == Len(frames) <= 3

\* C15: add-to-story with 3 panels in the collection leaves the panels as
\* they are, shows a message, and neither captures the canvas nor creates an
\* object URL.
C15_AddWhenFullNoOp ==
  [][(Len(frames) = 3 /\ addToStory(MinBytes))
     => /\ frames' = frames
        /\ toast' = MsgFull
        /\ tasks' = tasks
        /\ nextUrl' = nextUrl
        /\ liveUrls' = liveUrls]_vars

\* the message has been shown over three panels
C15_Witness ==
  /\ Len(frames) = 3
  /\ toast = MsgFull
  /\ tasks = <<>>

\* a panel is being dragged and is dropped on slot i, another slot
Dropped(i) ==
  /\ dragIndex # <<>>
  /\ dragIndex # <<i>>
  /\ dragIndex[1] < Len(frames)
  /\ ~HasUndefined(frames)
  /\ drop(i)

\* C16 as stated: the dragged panel moves from index from to index to, the
\* others keep their relative order, and the result is a permutation.
C16_ReorderMovesToIndex ==
  [][\A i \in Slots :
       Dropped(i)
       => /\ Len(frames') = Len(frames)
          /\ i < Len(frames')
          /\ frames'[i + 1] = frames[dragIndex[1] + 1]
          /\ RemoveAt(frames', i + 1) = RemoveAt(frames, dragIndex[1] + 1)]_vars

\* C16, amended: the dragged panel moves from index from to index to, or to
\* the last index when slot to is empty; the others keep their relative
\* order, and the result is a permutation.
C16_ReorderMovesToIndexOrEnd ==
  [][\A i \in Slots :
       Dropped(i)
       => LET to == IF i < Len(frames) THEN i ELSE Len(frames) - 1
          IN /\ Len(frames') = Len(frames)
             /\ frames'[to + 1] = frames[dragIndex[1] + 1]
             /\ RemoveAt(frames', to + 1) = RemoveAt(frames, dragIndex[1] + 1)]_vars

\* the example scenes [1,2,3] after moving index 0 to index 2
C16_Witness ==
  /\ Len(frames) = 3
  /\ frames[1].blob.scene = 2
  /\ frames[2].blob.scene = 3
  /\ frames[3].blob.scene = 1
  /\ dragIndex = <<>>

\* C17: the story page is entered only from a collection of exactly 3
\* panels; create-story with fewer shows a message and leaves the collection
\* and the page as they are.
C17_StoryOnlyWithThree ==
  [][/\ (page' = "story" /\ page # "story")
        => (Len(frames) = 3 /\ Len(handoff'.blobs) = 3 /\ Len(handoff'.images) = 3)
     /\ (Len(frames) < 3 /\ createStory)
        => /\ toast' = MsgThree
           /\ frames' = frames
           /\ page' = page
           /\ handoff' = handoff]_vars

\* the message was shown, and later the story page was entered
C17_Witness ==
  /\ page = "story"
  /\ toast = MsgThree
  /\ Len(frames) = 3

\* C18: the images handed over are the panels of the collection in its order
\* at create-story, image i posted as scene i.
C18_HandoffInCollectionOrder ==
  [][(page' = "story" /\ page # "story")
     => /\ Len(frames) = 3
        /\ handoff'.form.image1 = frames[1].blob
        /\ handoff'.form.image2 = frames[2].blob
        /\ handoff'.form.image3 = frames[3].blob
        /\ \A j \in 1 .. 3 : handoff'.images[j] = frames[j].url]_vars

\* handed over: example scene 2 moved to the front, scene 1 removed and a
\* capture of the canvas added last
C18_Witness ==
  /\ page = "story"
  /\ handoff.form.image1.scene = 2
  /\ handoff.form.image2.scene = 3
  /\ handoff.form.image3.scene = 0
  /\ handoff.images = <<2, 3, 4>>

\* ------------------------------------------------ quality gate: properties
\* r + g + b of a pixel, three times its grey value
Grey3(px) == px[1] + px[2] + px[3]

\* the sum of the squared differences of 3*grey over all pairs of pixels,
\* which is 9 n^2 times the variance of the grey value
RECURSIVE PairSquares(_, _, _)
PairSquares(data, i, j) ==
  IF i > Len(data) THEN 0
  ELSE IF j > Len(data) THEN PairSquares(data, i + 1, i + 2)
  ELSE (Grey3(data[i]) - Grey3(data[j])) * (Grey3(data[i]) - Grey3(data[j]))
       + PairSquares(data, i, j + 1)

\* the capture passes: at least 3000 bytes, grey variance at least 400
Passes(blob) ==
  /\ blob.size >= 3000
  /\ PairSquares(blob.px, 1, 2) >= 400 * 9 * Len(blob.px) * Len(blob.px)

\* the step took the capture in as the last panel
Accepted(blob) ==
  /\ Len(frames') = Len(frames) + 1
  /\ frames' = Append(frames, Last(frames'))
  /\ Last(frames').blob = blob
  /\ liveUrls' = liveUrls \cup {Last(frames').url}

\* the step turned the capture down
Rejected ==
  /\ frames' = frames
  /\ liveUrls' = liveUrls
  /\ nextUrl' = nextUrl
  /\ toast' = MsgDetail

\* C19: a capture is taken into the collection if and only if it has at
\* least 3000 bytes and its grey variance is at least 400; a capture turned
\* down shows the message and leaves the collection and the URLs alone.
C19_GateAcceptsIffSizeAndVariance ==
  [][\A k \in 1 .. MaxTasks :
       captured(k, now + 1)
       => IF Passes(tasks[k].blob) THEN Accepted(tasks[k].blob) ELSE Rejected]_vars

\* the canvas shows one shape of one colour on white
OneShapeOnWhite(px) ==
  /\ \E k \in 1 .. Len(px) : px[k] # White
  /\ \E k \in 1 .. Len(px) : px[k] = White
  /\ \A k, l \in 1 .. Len(px) : (px[k] # White /\ px[l] # White) => px[k] = px[l]

\* C20: the gate turns down a capture of the blank white canvas and takes in
\* a capture of a white canvas with a single shape over more than 5% of its
\* area, whatever colour the shape has.
C20_BlankRejectedShapeAccepted ==
  [][\A k \in 1 .. MaxTasks :
       (/\ captured(k, now + 1)
        /\ tasks[k].blob.px = getImageData(objects, backgroundColor, backgroundImage)
        /\ tasks[k].blob.size >= 3000)
       => /\ (\A j \in 1 .. NPixels : tasks[k].blob.px[j] = White) => Rejected
          /\ (/\ OneShapeOnWhite(tasks[k].blob.px)
              /\ 20 * Cardinality({j \in 1 .. NPixels : tasks[k].blob.px[j] # White})
                   > NPixels)
             => Accepted(tasks[k].blob)]_vars

\* ------------------------------------------------------------- the stage
\* the drawing page with its toolbar, the grid setting and the capture: one
\* stroke, pointer-downs at the centre with whatever tool is selected, one
\* capture, undo and redo pressed while no image is loading
StageClicks == {<<1, 1>>}

NextStage ==
  \/ \E t \in Tools : setTool(t) /\ UNCHANGED <<drawn, panelVars>>
  \/ \E c \in Colors : setColor(c) /\ UNCHANGED <<drawn, panelVars>>
  \/ \E n \in Sizes : setSize(n) /\ UNCHANGED <<drawn, panelVars>>
  \/ drawn.strokes < 1 /\ pathCreated(Centre) /\ Drew("strokes") /\ UNCHANGED panelVars
  \/ \E p \in StageClicks :
       drawn.fills < 1 /\ onDown(p[1], p[2]) /\ Drew("fills") /\ UNCHANGED panelVars
  \/ \E k \in 1 .. MaxLoads : fillLoaded(k) /\ UNCHANGED <<drawn, panelVars>>
  \/ \E k \in 1 .. MaxLoads :
       CanInsert(k, MaxCanvasObjects) /\ restoreLoaded(k) /\ UNCHANGED <<drawn, panelVars>>
  \/ loads = <<>> /\ handleUndo /\ UNCHANGED <<drawn, panelVars>>
  \/ loads = <<>> /\ handleRedo /\ UNCHANGED <<drawn, panelVars>>
  \/ handleClear /\ UNCHANGED <<drawn, panelVars>>
  \/ \E e \in BOOLEAN :
       drawn.applies < MaxApplies /\ onApply(e) /\ Drew("applies") /\ UNCHANGED panelVars
  \/ frames = <<>> /\ tasks = <<>> /\ addToStory(MinBytes) /\ UNCHANGED <<progVars, drawn>>
  \/ \E k \in 1 .. MaxTasks :
       now = 0 /\ captured(k, now + 1) /\ UNCHANGED <<progVars, drawn>>

SpecStage == Init /\ [][NextStage]_vars

\* the panel collection with the clock as Date.now() gives it: two captures
\* may complete within the same millisecond
NextIds ==
  \/ drawn.strokes < 1 /\ pathCreated(Centre) /\ Drew("strokes") /\ UNCHANGED panelVars
  \/ addToStory(MinBytes) /\ UNCHANGED <<progVars, drawn>>
  \/ \E k \in 1 .. MaxTasks : \E t \in 0 .. MaxNow :
       t <= now + 1 /\ captured(k, t) /\ UNCHANGED <<progVars, drawn>>
  \/ \E j \in 1 .. MaxPanels + 1 :
       j <= Len(frames) /\ removeFrame(frames[j].id) /\ UNCHANGED <<progVars, drawn>>

SpecIds == Init /\ [][NextIds]_vars

\* two fills on a canvas that a stroke has divided: pointer-downs at two
\* corners, the stroke drawn before the first pointer-down
CornerClicks == {<<0, 0>>, <<SIZE - 1, SIZE - 1>>}

NextOverlap ==
  \/ \E t \in Tools : setTool(t) /\ UNCHANGED <<drawn, panelVars>>
  \/ drawn.strokes < 1 /\ drawn.fills = 0 /\ pathCreated(Diamond) /\ Drew("strokes")
     /\ UNCHANGED panelVars
  \/ \E p \in CornerClicks :
       drawn.fills < MaxFills /\ tool = "fill" /\ onDown(p[1], p[2]) /\ Drew("fills")
       /\ UNCHANGED panelVars
  \/ \E k \in 1 .. MaxLoads : fillLoaded(k) /\ UNCHANGED <<drawn, panelVars>>

SpecOverlap == Init /\ [][NextOverlap]_vars

\* ------------------------------------------------- strokes: properties
\* C22: every completed brush or eraser stroke puts exactly one new snapshot
\* on top of undo, and that snapshot is the scene with the stroke in it,
\* whatever else is in progress.
C22_StrokeCommitsOneSnapshot ==
  [][\A sh \in Shapes :
       pathCreated(sh)
       => /\ undo' = Append(undo, Scene')
          /\ Last(Scene'.objects).px = sh]_vars

\* C26: a stroke drawn with the eraser has the colour of the background
\* beneath it, also after a fill has replaced the background.
C26_EraserTakesBackground ==
  [][\A sh \in Shapes :
       (tool = "eraser" /\ pathCreated(sh))
       => \A i \in sh :
            hexToRgba(Last(objects').stroke) = BasePixel(backgroundColor', backgroundImage', i)]_vars

\* C30: a fill whose seed colour is within the tolerance of the fill colour
\* (every channel at most 8 apart) is a no-op.
C30_FillWithinToleranceNoOp ==
  (/\ fOut.kind # "none"
   /\ InBounds(fOut.startX, fOut.startY)
   /\ WithinTolerance(fData[PixelIdx(fOut.startX, fOut.startY) + 1], NamedRgba(fOut.fillHex)))
  => (fOut.kind = "skip" /\ fOut.data = fData)

\* C23: the events a restore raises commit nothing: an undo moves exactly
\* the top snapshot of undo onto redo, a redo moves exactly the top snapshot
\* of redo onto undo, and the completion of a pending restore leaves both
\* stacks as they are.
C23_RestoreCommitsNothing ==
  [][/\ (Len(undo) > 1 /\ handleUndo)
        => (undo' = Front(undo) /\ redo' = Append(redo, Last(undo)))
     /\ (Len(redo) > 0 /\ handleRedo)
        => (undo' = Append(undo, Last(redo)) /\ redo' = Front(redo))
     /\ \A k \in 1 .. MaxLoads :
          restoreLoaded(k) => (undo' = undo /\ redo' = redo)]_vars

\* an undo has cleared a canvas that held objects, and its restore is pending
C23_Witness ==
  /\ restoring
  /\ Len(redo) = 1
  /\ Len(redo[1].objects) > 0
  /\ \E k \in 1 .. Len(loads) : loads[k].kind = "restore"

\* ------------------------------------------------- toolbar: properties
\* C24: the tool is always brush, eraser or fill and changes only when the
\* user selects one; a stroke, a pointer-down, the installation of a fill,
\* undo, redo, the completion of a restore, clear, add-to-story, its capture
\* and the rebuilding of the grid leave tool, colour, width and brush alone.
C24_ToolChangesOnlyBySelection ==
  /\ [](tool \in Tools)
  /\ [][/\ (tool' # tool) => \E t \in Tools : setTool(t)
        /\ (\/ pathCreated(Centre)
            \/ \E p \in StageClicks : onDown(p[1], p[2])
            \/ \E k \in 1 .. MaxLoads : fillLoaded(k) \/ restoreLoaded(k)
            \/ handleUndo
            \/ handleRedo
            \/ handleClear
            \/ \E e \in BOOLEAN : onApply(e)
            \/ addToStory(MinBytes)
            \/ \E k \in 1 .. MaxTasks : captured(k, now + 1))
           => UNCHANGED toolVars]_vars

\* the fill tool is selected, the canvas has been cleared after a fill, and
\* a panel has been captured
C24_Witness ==
  /\ tool = "fill"
  /\ drawn.fills = 1
  /\ run.phase = "off"
  /\ backgroundImage = NoImage
  /\ Len(frames) = 1
  /\ drawn.applies > 0

\* C25: a pointer-down runs the flood fill exactly when the fill tool is
\* selected: with the fill tool an effective fill hands its raster to the
\* image loader, with the brush or the eraser the pointer-down changes
\* nothing; free drawing is on exactly when the tool is not fill, so no
\* stroke is completed while fill is selected.
C25_FillIffFillTool ==
  /\ [](isDrawingMode <=> tool # "fill")
  /\ [][/\ \A p \in StageClicks :
             onDown(p[1], p[2])
             => IF tool = "fill"
                THEN LET r == floodFill(getImageData(objects, backgroundColor,
                                                     backgroundImage),
                                        p[1], p[2], color)
                     IN IF r.kind = "fill"
                        THEN /\ Len(loads') = Len(loads) + 1
                             /\ Last(loads').kind = "fill"
                             /\ Last(loads').img = r.data
                        ELSE UNCHANGED progVars
                ELSE UNCHANGED progVars
        /\ pathCreated(Centre) => tool # "fill"]_vars

\* a pointer-down has happened and no fill has followed: nothing is loading,
\* nothing was ever committed, the canvas is as mounted
C25_Witness ==
  /\ drawn.fills = 1
  /\ drawn.strokes = 0
  /\ tool # "fill"
  /\ loads = <<>>
  /\ run.phase = "commits"
  /\ Len(run.log) = 1
  /\ backgroundImage = NoImage

\* ---------------------------------------------------- grid: properties
GridLayers(objs) == {k \in 1 .. Len(objs) : IsGrid(objs[k])}

\* C27: right after every settings-applied notification and after every
\* clear the canvas holds exactly one grid layer when the guides are enabled
\* and none when they are not, and that layer is the bottom object.
C27_OneGridLayerAtBottom ==
  [][((\E e \in BOOLEAN : onApply(e)) \/ handleClear)
     => /\ GridLayers(objects') = IF grid_guides' THEN {1} ELSE {}
        /\ gridLayerRef' = grid_guides']_vars

\* the grid has been rebuilt beneath a stroke
C27_Witness ==
  /\ drawn.applies = MaxApplies
  /\ grid_guides
  /\ Len(objects) >= 2
  /\ IsGrid(objects[1])
  /\ IsDrawable(objects[2])

\* ---------------------------------------------- panels: more properties
\* C21: removing a panel takes exactly that panel out of the collection and
\* releases exactly its object URL; the other panels keep their order and
\* their URLs stay live.
C21_RemoveDeletesOnePanel ==
  [][\A j \in 1 .. MaxPanels + 1 :
       (j <= Len(frames) /\ removeFrame(frames[j].id))
       => /\ frames' = RemoveAt(frames, j)
          /\ liveUrls' = liveUrls \ {frames[j].url}]_vars

C29_UrlsReleasedAtUnmount == page = "story" => liveUrls = {}

\* ------------------------------------------------ fill loop: properties
\* C31, as stated: the fill loop ends and no pixel reaches the test or the
\* write of the loop more than once.
C31_EachPixelProcessedOnce ==
  fOut.kind = "fill"
  => /\ fOut.pops < MaxPops
     /\ \A i \in AllPixels : fOut.tests[i] <= 1

\* C31, amended: the fill loop ends within four iterations for every
\* coloured pixel and one for the seed; a coloured pixel is tested and
\* written once; a pixel left alone is tested at most once for each of its
\* four neighbours.
C31_FillLoopTerminates ==
  fOut.kind = "fill"
  => /\ fOut.pops <= 4 * Cardinality(fOut.visited) + 1
     /\ fOut.pops < MaxPops
     /\ \A i \in fOut.visited : fOut.tests[i] = 1
     /\ \A i \in AllPixels \ fOut.visited : fOut.tests[i] <= 4

\* a fill has coloured pixels around one that does not match, and has come
\* back to that pixel
C31_Witness ==
  /\ fOut.kind = "fill"
  /\ Cardinality(fOut.visited) > 1
  /\ \E i \in AllPixels \ fOut.visited : fOut.tests[i] > 1

\* ------------------------------------------------ two fills: properties
\* C32: a fill is installed as if it had sampled the surface as it is when
\* it commits: the raster it installs is the fill of the current surface, so
\* the region of a fill committed before it is still in it.
C32_FillsNeverOverlap ==
  [][\A k \in 1 .. MaxLoads :
       fillLoaded(k)
       => backgroundImage'
            = floodFill(getImageData(objects, backgroundColor, backgroundImage),
                        loads[k].startX, loads[k].startY, loads[k].fillHex).data]_vars

\* ----------------------------------------------- grid: more properties
\* the colours a grid line leaves on a white, black or empty pixel
GridColours == {BlendGrid(White), BlendGrid(Black), BlendGrid(Transparent)}

HasGrid(snap) ==
  \/ \E k \in 1 .. Len(snap.objects) : IsGrid(snap.objects[k])
  \/ /\ snap.backgroundImage # NoImage
     /\ \E i \in GridPx : snap.backgroundImage[i + 1] \in GridColours

\* C33: no snapshot in undo or redo holds the grid, neither as an object
\* nor as pixels of its background raster.
C33_GridNeverInSnapshot ==
  /\ \A j \in 1 .. Len(undo) : ~HasGrid(undo[j])
  /\ \A j \in 1 .. Len(redo) : ~HasGrid(redo[j])

\* ------------------------------------------------ history: more properties
\* C34: undo and redo together never hold more than 30 snapshots; an undo
\* and a redo each leave the combined length as it is, so a redo never takes
\* undo past 30.
C34_CombinedLengthCapped ==
  /\ [](Len(undo) + Len(redo) <= HistoryCap)
  /\ [][(handleUndo \/ handleRedo)
        => Len(undo') + Len(redo') = Len(undo) + Len(redo)]_vars

\* a redo has taken undo back to 30 snapshots
C34_Witness ==
  /\ run.phase = "redone"
  /\ Len(run.log) > HistoryCap
  /\ Len(undo) = HistoryCap
  /\ redo = <<>>

\* C35: whenever no restore and no fill image is loading, the visible scene
\* is the snapshot on top of undo.
C35_SceneIsTopSnapshot ==
  loads = <<>> => (Len(undo) >= 1 /\ Scene = Last(undo))

\* C36: restoring is true exactly while a restore is in progress.
C36_RestoringIffRestorePending == restoring <=> ~NoRestorePending

\* the raster a fill would hand over if it had sampled the blank canvas
BlankFill(x, y, hex) ==
  floodFill(getImageData(<<>>, HexWhite, NoImage), x, y, hex).data

\* C37: after Clear the surface stays blank: a fill that sampled the canvas
\* before Clear and is installed afterwards changes neither the canvas nor
\* the stacks.
C37_ClearStaysBlank ==
  [][\A k \in 1 .. MaxLoads :
       (/\ Scene = BlankScene
        /\ undo = <<BlankScene>>
        /\ redo = <<>>
        /\ k <= Len(loads)
        /\ loads[k].kind = "fill"
        /\ loads[k].img # BlankFill(loads[k].startX, loads[k].startY, loads[k].fillHex)
        /\ fillLoaded(k))
       => UNCHANGED <<canvasVars, historyVars>>]_vars

\* C38: a settings-applied notification, whether it enables or disables the
\* grid, leaves undo and redo as they are.
C38_GridRebuildCommitsNothing ==
  [][\A e \in BOOLEAN : onApply(e) => (undo' = undo /\ redo' = redo)]_vars

\* C39: the grid layer is on the canvas exactly while the grid flag is
\* enabled.
C39_GridPresentIffEnabled ==
  grid_guides <=> (\E k \in 1 .. Len(objects) : IsGrid(objects[k]))

\* C40: on the drawing page every panel of the collection holds an object
\* URL that has not been revoked.
C40_PanelsHoldLiveUrls ==
  page = "draw"
  => \A j \in 1 .. Len(frames) :
       frames[j] # Undefined => frames[j].url \in liveUrls

====
